---- MODULE Spec2Model ----
(***************************************************************************)
(* Model of pyourls3.client.Yourls: the constructor and the six API        *)
(* methods.  A Python string is the sequence of its pieces: each of the    *)
(* characters ":", " " and "/" is a piece of its own and the text between  *)
(* them is cut into words, so that str.split(": "), addr[-1] and           *)
(* concatenation are computed on the sequence.  No word is spelled by      *)
(* other words, so two sequences are equal exactly when the strings are.   *)
(* A Python argument value is a tagged record [t, v] (None, str or int).   *)
(* A dict is a function whose domain is its key set.                       *)
(***************************************************************************)
EXTENDS Integers, Sequences, FiniteSets, TLC

VARIABLES
    constructed,              \* a Yourls instance exists (__init__ returned)
    api_endpoint,             \* self.api_endpoint
    global_args,              \* self.global_args
    is_using_signature_auth,  \* self.is_using_signature_auth
    pc,                       \* "idle", or the call waiting for its HTTP response
    op,                       \* the last call made
    args,                     \* its arguments
    response,                 \* the HTTP response it received (if any)
    posts,                    \* the POST requests it issued, in order
    outcome                   \* what it returned or raised

vars == <<constructed, api_endpoint, global_args, is_using_signature_auth,
          pc, op, args, response, posts, outcome>>

(***************************************************************************)
(* Bounds.                                                                 *)
(***************************************************************************)
\* longest tail of a response message after its optional "error: " prefix
MaxTail == 2

(***************************************************************************)
(* Python values.                                                          *)
(***************************************************************************)
PyNone == [t |-> "none", v |-> <<>>]
PyStr(s) == [t |-> "str", v |-> s]
PyInt(s) == [t |-> "int", v |-> s]

\* bool(x) for None, str and int
Truthy(x) ==
    CASE x.t = "none" -> FALSE
      [] x.t = "str" -> x.v # <<>>
      [] x.t = "int" -> x.v # <<"0">>

\* string literals of client.py
S_json == <<"json">>
S_success == <<"success">>
S_error_url == <<"error", ":", "url">>
S_sep == <<":", " ">>
S_slash == <<"/">>
S_api_php == <<"yourls-api.php">>
S_shorturl == <<"shorturl">>
S_update == <<"update">>
S_expand == <<"expand">>
S_stats == <<"stats">>
S_delete == <<"delete">>
S_url_stats == <<"url-stats">>
S_credentials_invalid == <<"credentials", " ", "are", " ", "invalid", " ", "or", " ", "incorrect", ":", " ", "forbidden">>

(***************************************************************************)
(* Dicts.                                                                  *)
(***************************************************************************)
EmptyDict == [k \in {} |-> PyNone]

\* d[k] = v on a copy of d
Put(d, k, v) == [x \in DOMAIN d \cup {k} |-> IF x = k THEN v ELSE d[x]]

\* {**a, **b}
Merge(a, b) == [x \in DOMAIN a \cup DOMAIN b |-> IF x \in DOMAIN b THEN b[x] ELSE a[x]]

(***************************************************************************)
(* String operations.                                                      *)
(***************************************************************************)
\* s.find(sep) + 1: the first position where sep occurs in s, 0 when none
IndexOf(s, sep) ==
    LET hits == {i \in 1..(Len(s) - Len(sep) + 1) : SubSeq(s, i, i + Len(sep) - 1) = sep}
    IN IF hits = {} THEN 0 ELSE CHOOSE i \in hits : \A k \in hits : i <= k

\* s.split(sep) for a non-empty sep: every occurrence splits, left to right
RECURSIVE Split(_, _)
Split(s, sep) ==
    LET i == IndexOf(s, sep)
    IN IF i = 0 THEN <<s>>
       ELSE <<SubSeq(s, 1, i - 1)>> \o Split(SubSeq(s, i + Len(sep), Len(s)), sep)

\* urllib3.util.parse_url(addr).scheme: the text before "://", None without it
ParseScheme(s) ==
    LET i == IndexOf(s, <<":", "/", "/">>)
    IN IF i = 0 THEN PyNone ELSE PyStr(SubSeq(s, 1, i - 1))

\* addr, with a "/" appended unless it ends with one, then "yourls-api.php"
Endpoint(addr) ==
    (IF addr[Len(addr)] # "/" THEN addr \o S_slash ELSE addr) \o S_api_php

(***************************************************************************)
(* Inputs.                                                                 *)
(***************************************************************************)
RECURSIVE SeqsUpTo(_, _)
SeqsUpTo(A, n) ==
    IF n = 0 THEN {<<>>}
    ELSE LET shorter == SeqsUpTo(A, n - 1)
         IN shorter \cup {Append(s, a) : s \in {x \in shorter : Len(x) = n - 1}, a \in A}

\* addr is None or a string; of the strings, those whose scheme every urllib3
\* release that requests 2.22.0 admits parses alike
AddrValues ==
    { PyNone, PyStr(<<>>),
      PyStr(<<"x">>), PyStr(<<"x", "/">>),
      PyStr(<<"h", ":", "/", "/", "x">>), PyStr(<<"h", ":", "/", "/", "x", "/">>) }

CredValues == { PyNone, PyInt(<<"5">>), PyStr(<<>>), PyStr(<<"c">>) }

StatusCodes == {200, 401, 403, 404, 500}

\* a required argument of a method
ArgValues == { PyNone, PyInt(<<"5">>), PyInt(<<"0">>), PyStr(<<>>), PyStr(<<"a">>) }

\* an optional argument of a method
OptValues == { PyNone, PyStr(<<"k">>) }

MsgTails == SeqsUpTo({"a", ":", " "}, MaxTail)
S_error_prefix == <<"error", ":", " ">>
Messages == {S_success} \cup MsgTails \cup {S_error_prefix \o t : t \in MsgTails}

(***************************************************************************)
(* HTTP responses.  A body either fails to parse as JSON or is a JSON      *)
(* object, a dict that holds any subset of the keys the client reads.      *)
(***************************************************************************)
NoResponse == [received |-> FALSE, status_code |-> 0, json |-> FALSE, obj |-> EmptyDict]
Resp(c, isjson, o) == [received |-> TRUE, status_code |-> c, json |-> isjson, obj |-> o]

\* objs, and every object of objs with key k added, valued in V
Extend(objs, k, V) == objs \cup {Put(o, k, v) : o \in objs, v \in V}

S_fail == <<"fail">>
S_E404 == <<"E404">>
S_longurl == <<"h", ":", "/", "/", "l">>

StatusFields == {S_success, S_fail}
CodeFields == {S_error_url, S_E404}

\* what shorten and update read: status, code, message
EnvelopeObjects ==
    Extend(Extend(Extend({EmptyDict}, "status", StatusFields), "code", CodeFields),
           "message", {S_error_prefix \o <<"a">>})

\* what expand and url_stats read: message, code and the payload key
MessageObjects(payload) ==
    Extend(Extend(Extend({EmptyDict}, "message", Messages), "code", {S_E404}),
           payload, {S_longurl})

StatsObjects == Extend({EmptyDict}, "stats", {<<"n">>})

Responses(objs) ==
    {Resp(c, FALSE, EmptyDict) : c \in StatusCodes}
        \cup {Resp(c, TRUE, o) : c \in StatusCodes, o \in objs}

(***************************************************************************)
(* Outcomes of a call.                                                     *)
(***************************************************************************)
NoOutcome == [kind |-> "none", exc |-> "", info |-> EmptyDict]
Return(v) == [kind |-> "return", exc |-> "", info |-> [value |-> v]]
Raise(e, i) == [kind |-> "raise", exc |-> e, info |-> i]

Pyourls3ParamError(param) == Raise("Pyourls3ParamError", [param |-> param])
Pyourls3HTTPError(code, url) == Raise("Pyourls3HTTPError", [status_code |-> code, url |-> url])
Pyourls3APIError(message, code) == Raise("Pyourls3APIError", [message |-> message, code |-> code])
Pyourls3URLAlreadyExistsError(url) == Raise("Pyourls3URLAlreadyExistsError", [url |-> url])
KeyError(k) == Raise("KeyError", [key |-> k])
IndexError == Raise("IndexError", EmptyDict)

\* one POST request: requests.post(url, data=data)
Post(url, data) == [url |-> url, data |-> data]

(***************************************************************************)
(* Yourls.__init__                                                         *)
(***************************************************************************)
\* the checks of __init__ before it touches the network: the exception they
\* raise, or NoOutcome when they pass
InitChecks(addr, user, passwd, key) ==
    IF ~Truthy(addr) THEN Pyourls3ParamError("API URL")
    ELSE IF ~Truthy(ParseScheme(addr.v)) THEN Pyourls3ParamError("addr")
    ELSE IF user.t = "none" \/ passwd.t = "none"
         THEN IF key.t = "none"
              THEN Pyourls3ParamError("username and password or signature")
              ELSE IF key.t # "str" THEN Pyourls3ParamError("key") ELSE NoOutcome
         ELSE IF user.t # "str" THEN Pyourls3ParamError("user")
              ELSE IF passwd.t # "str" THEN Pyourls3ParamError("passwd")
              ELSE NoOutcome

\* mutant: a key, when given, selects signature auth
SignatureAuthKeyFirst(user, passwd, key) == key.t # "none"

\* self.is_using_signature_auth once the checks passed
SignatureAuth(user, passwd, key) == user.t = "none" \/ passwd.t = "none"

\* self.global_args once the checks passed
GlobalArgs(user, passwd, key) ==
    Put(IF SignatureAuth(user, passwd, key)
        THEN [signature |-> key]
        ELSE [username |-> user, password |-> passwd],
        "format", PyStr(S_json))

\* __init__ up to its probe: session.post(api_endpoint, data={**global_args})
InitCall(addr, user, passwd, key) ==
    /\ pc = "idle"
    /\ ~constructed
    /\ op' = "__init__"
    /\ args' = [addr |-> addr, user |-> user, passwd |-> passwd, key |-> key]
    /\ response' = NoResponse
    /\ constructed' = FALSE
    /\ LET e == InitChecks(addr, user, passwd, key)
       IN IF e.kind = "raise"
          THEN /\ outcome' = e
               /\ posts' = <<>>
               /\ pc' = "idle"
               /\ UNCHANGED <<api_endpoint, global_args, is_using_signature_auth>>
          ELSE /\ is_using_signature_auth' = SignatureAuth(user, passwd, key)
               /\ global_args' = GlobalArgs(user, passwd, key)
               /\ api_endpoint' = Endpoint(addr.v)
               /\ posts' = <<Post(Endpoint(addr.v),
                                  Merge(GlobalArgs(user, passwd, key), EmptyDict))>>
               /\ outcome' = NoOutcome
               /\ pc' = "waiting"

\* mutant: every client-error status fails the probe
InitResultAnyClientError(r) ==
    IF r.status_code >= 400 /\ r.status_code < 500
    THEN Pyourls3APIError(S_credentials_invalid, 403)
    ELSE Return(PyNone)

\* what __init__ does with the probe's response
InitResult(r) ==
    IF r.status_code = 403
    THEN Pyourls3APIError(S_credentials_invalid, 403)
    ELSE Return(PyNone)

\* the probe's response arrives: __init__ raises, or returns the instance
InitReturn(r) ==
    /\ pc = "waiting"
    /\ op = "__init__"
    /\ response' = r
    /\ outcome' = InitResult(r)
    /\ pc' = "idle"
    /\ IF InitResult(r).kind = "raise"
       THEN /\ constructed' = FALSE
            /\ api_endpoint' = <<>>
            /\ global_args' = EmptyDict
            /\ is_using_signature_auth' = FALSE
       ELSE /\ constructed' = TRUE
            /\ UNCHANGED <<api_endpoint, global_args, is_using_signature_auth>>
    /\ UNCHANGED <<op, args, posts>>

(***************************************************************************)
(* The common shape of the methods.                                        *)
(***************************************************************************)
\* a method raises before it posts
Reject(name, a, e) ==
    /\ pc = "idle"
    /\ constructed
    /\ op' = name
    /\ args' = a
    /\ response' = NoResponse
    /\ posts' = <<>>
    /\ outcome' = e
    /\ pc' = "idle"
    /\ UNCHANGED <<constructed, api_endpoint, global_args, is_using_signature_auth>>

\* mutant: the call's fields are merged into self.global_args itself
RequestUpdatesGlobals(name, a, specific_args) ==
    /\ pc = "idle"
    /\ constructed
    /\ op' = name
    /\ args' = a
    /\ response' = NoResponse
    /\ global_args' = Merge(global_args, specific_args)
    /\ posts' = <<Post(api_endpoint, global_args')>>
    /\ outcome' = NoOutcome
    /\ pc' = "waiting"
    /\ UNCHANGED <<constructed, api_endpoint, is_using_signature_auth>>

\* r = requests.post(self.api_endpoint, data={**self.global_args, **specific_args})
Request(name, a, specific_args) ==
    /\ pc = "idle"
    /\ constructed
    /\ op' = name
    /\ args' = a
    /\ response' = NoResponse
    /\ posts' = <<Post(api_endpoint, Merge(global_args, specific_args))>>
    /\ outcome' = NoOutcome
    /\ pc' = "waiting"
    /\ UNCHANGED <<constructed, api_endpoint, global_args, is_using_signature_auth>>

\* mutant: a call that is about to raise posts its request once more
CompleteWithRetry(name, r, result) ==
    /\ pc = "waiting"
    /\ op = name
    /\ response' = r
    /\ outcome' = result
    /\ pc' = "idle"
    /\ posts' = IF result.kind = "raise" THEN posts \o posts ELSE posts
    /\ UNCHANGED <<constructed, api_endpoint, global_args, is_using_signature_auth,
                   op, args>>

\* the response r arrives and the method ends with result
Complete(name, r, result) ==
    /\ pc = "waiting"
    /\ op = name
    /\ response' = r
    /\ outcome' = result
    /\ pc' = "idle"
    /\ UNCHANGED <<constructed, api_endpoint, global_args, is_using_signature_auth,
                   op, args, posts>>

(***************************************************************************)
(* shorten, update                                                         *)
(***************************************************************************)
ShortenArgs(url, keyword, title) ==
    LET a == [action |-> PyStr(S_shorturl), url |-> url]
        b == IF keyword.t # "none" THEN Put(a, "keyword", keyword) ELSE a
    IN IF title.t # "none" THEN Put(b, "title", title) ELSE b

ShortenResult(url, r, endpoint) ==
    IF ~r.json THEN Pyourls3HTTPError(r.status_code, endpoint)
    ELSE LET j == r.obj
         IN IF "status" \notin DOMAIN j THEN KeyError("status")
            ELSE IF j["status"] # S_success
                 THEN IF "code" \notin DOMAIN j THEN KeyError("code")
                      ELSE IF j["code"] = S_error_url
                           THEN Pyourls3URLAlreadyExistsError(url)
                           ELSE IF "message" \notin DOMAIN j THEN KeyError("message")
                                ELSE Pyourls3APIError(j["message"], j["code"])
                 ELSE Return(j)

ShortenCall(url, keyword, title) ==
    LET a == [url |-> url, keyword |-> keyword, title |-> title]
    IN IF ~Truthy(url)
       THEN Reject("shorten", a, Pyourls3ParamError("url"))
       ELSE Request("shorten", a, ShortenArgs(url, keyword, title))

ShortenReturn(r) == Complete("shorten", r, ShortenResult(args["url"], r, api_endpoint))

UpdateArgs(url, keyword) ==
    [action |-> PyStr(S_update), shorturl |-> url, url |-> keyword]

UpdateResult(url, r, endpoint) ==
    IF ~r.json THEN Pyourls3HTTPError(r.status_code, endpoint)
    ELSE LET j == r.obj
         IN IF "status" \notin DOMAIN j THEN KeyError("status")
            ELSE IF j["status"] # S_success
                 THEN IF "code" \notin DOMAIN j THEN KeyError("code")
                      ELSE IF j["code"] = S_error_url
                           THEN Pyourls3URLAlreadyExistsError(url)
                           ELSE IF "message" \notin DOMAIN j THEN KeyError("message")
                                ELSE Pyourls3APIError(j["message"], j["code"])
                 ELSE Return(j)

UpdateCall(url, keyword) ==
    LET a == [url |-> url, keyword |-> keyword]
    IN IF ~Truthy(url)
       THEN Reject("update", a, Pyourls3ParamError("url"))
       ELSE Request("update", a, UpdateArgs(url, keyword))

UpdateReturn(r) == Complete("update", r, UpdateResult(args["url"], r, api_endpoint))

(***************************************************************************)
(* expand, url_stats                                                       *)
(***************************************************************************)
\* j["message"].split(": ")[1]: the detail, or <<>> paired with FALSE when
\* the list has no second element
SplitDetail(message) ==
    LET parts == Split(message, S_sep)
    IN IF Len(parts) < 2 THEN [ok |-> FALSE, detail |-> <<>>]
       ELSE [ok |-> TRUE, detail |-> parts[2]]

ExpandArgs(url) == [action |-> PyStr(S_expand), shorturl |-> url]

ExpandResult(r, endpoint) ==
    IF ~r.json THEN Pyourls3HTTPError(r.status_code, endpoint)
    ELSE LET j == r.obj
         IN IF "message" \notin DOMAIN j THEN KeyError("message")
            ELSE IF j["message"] # S_success
                 THEN IF ~SplitDetail(j["message"]).ok THEN IndexError
                      ELSE IF "code" \notin DOMAIN j THEN KeyError("code")
                           ELSE Pyourls3APIError(SplitDetail(j["message"]).detail, j["code"])
                 ELSE IF "longurl" \notin DOMAIN j THEN KeyError("longurl")
                      ELSE Return(j["longurl"])

ExpandCall(url) ==
    LET a == [url |-> url]
    IN IF ~Truthy(url)
       THEN Reject("expand", a, Pyourls3ParamError("url"))
       ELSE Request("expand", a, ExpandArgs(url))

ExpandReturn(r) == Complete("expand", r, ExpandResult(r, api_endpoint))

UrlStatsArgs(url) == [action |-> PyStr(S_url_stats), shorturl |-> url]

UrlStatsResult(r, endpoint) ==
    IF ~r.json THEN Pyourls3HTTPError(r.status_code, endpoint)
    ELSE LET j == r.obj
         IN IF "message" \notin DOMAIN j THEN KeyError("message")
            ELSE IF j["message"] # S_success
                 THEN IF ~SplitDetail(j["message"]).ok THEN IndexError
                      ELSE IF "code" \notin DOMAIN j THEN KeyError("code")
                           ELSE Pyourls3APIError(SplitDetail(j["message"]).detail, j["code"])
                 ELSE IF "link" \notin DOMAIN j THEN KeyError("link")
                      ELSE Return(j["link"])

UrlStatsCall(url) ==
    LET a == [url |-> url]
    IN IF ~Truthy(url)
       THEN Reject("url_stats", a, Pyourls3ParamError("url"))
       ELSE Request("url_stats", a, UrlStatsArgs(url))

UrlStatsReturn(r) == Complete("url_stats", r, UrlStatsResult(r, api_endpoint))

(***************************************************************************)
(* stats, delete                                                           *)
(***************************************************************************)
StatsArgs == [action |-> PyStr(S_stats)]

\* mutant: the decode error of a body that is not JSON is not caught
StatsResultUncaught(r, endpoint) ==
    IF ~r.json THEN Raise("JSONDecodeError", EmptyDict)
    ELSE IF "stats" \notin DOMAIN r.obj THEN KeyError("stats")
         ELSE Return(r.obj["stats"])

StatsResult(r, endpoint) ==
    IF ~r.json THEN Pyourls3HTTPError(r.status_code, endpoint)
    ELSE IF "stats" \notin DOMAIN r.obj THEN KeyError("stats")
         ELSE Return(r.obj["stats"])

StatsCall == Request("stats", EmptyDict, StatsArgs)

StatsReturn(r) == Complete("stats", r, StatsResult(r, api_endpoint))

DeleteArgs(keyword) == [action |-> PyStr(S_delete), shorturl |-> keyword]

\* mutant: delete parses the body like the other methods
DeleteResultParsesBody(r, endpoint) ==
    IF r.status_code = 200 /\ r.json THEN Return(TRUE)
    ELSE Pyourls3HTTPError(r.status_code, endpoint)

DeleteResult(r, endpoint) ==
    IF r.status_code = 200 THEN Return(TRUE)
    ELSE Pyourls3HTTPError(r.status_code, endpoint)

DeleteCall(keyword) ==
    LET a == [keyword |-> keyword]
    IN IF ~Truthy(keyword)
       THEN Reject("delete", a, Pyourls3ParamError("url"))
       ELSE Request("delete", a, DeleteArgs(keyword))

DeleteReturn(r) == Complete("delete", r, DeleteResult(r, api_endpoint))

(***************************************************************************)
(* The specification.                                                      *)
(***************************************************************************)
Init ==
    /\ constructed = FALSE
    /\ api_endpoint = <<>>
    /\ global_args = EmptyDict
    /\ is_using_signature_auth = FALSE
    /\ pc = "idle"
    /\ op = "none"
    /\ args = EmptyDict
    /\ response = NoResponse
    /\ posts = <<>>
    /\ outcome = NoOutcome

Next ==
    \/ \E addr \in AddrValues, user \in CredValues, passwd \in CredValues, key \in CredValues :
          InitCall(addr, user, passwd, key)
    \/ \E r \in Responses(EnvelopeObjects) : InitReturn(r)
    \/ \E url \in ArgValues, keyword \in OptValues, title \in OptValues :
          ShortenCall(url, keyword, title)
    \/ \E r \in Responses(EnvelopeObjects) : ShortenReturn(r)
    \/ \E url \in ArgValues, keyword \in OptValues : UpdateCall(url, keyword)
    \/ \E r \in Responses(EnvelopeObjects) : UpdateReturn(r)
    \/ \E url \in ArgValues : ExpandCall(url)
    \/ \E r \in Responses(MessageObjects("longurl")) : ExpandReturn(r)
    \/ StatsCall
    \/ \E r \in Responses(StatsObjects) : StatsReturn(r)
    \/ \E keyword \in ArgValues : DeleteCall(keyword)
    \/ \E r \in Responses(EnvelopeObjects) : DeleteReturn(r)
    \/ \E url \in ArgValues : UrlStatsCall(url)
    \/ \E r \in Responses(MessageObjects("link")) : UrlStatsReturn(r)

Spec == Init /\ [][Next]_vars

(***************************************************************************)
(* Vocabulary of the claims.                                               *)
(***************************************************************************)
Methods == {"shorten", "update", "expand", "stats", "delete", "url_stats"}
Ended == pc = "idle" /\ op # "none"
Raised(e) == outcome.kind = "raise" /\ outcome.exc = e
Returned == outcome.kind = "return"
NonEmptyStr(x) == x.t = "str" /\ x.v # <<>>
AuthKeys(d) == DOMAIN d \cap {"username", "password", "signature"}
Answered == Ended /\ response.received

\* HTTPError carrying the response's status code and the API endpoint
RaisedHTTPError ==
    /\ Raised("Pyourls3HTTPError")
    /\ outcome.info["status_code"] = response.status_code
    /\ outcome.info["url"] = api_endpoint

(***************************************************************************)
(* C1.  Whenever a required argument of the constructor or of a method is  *)
(* missing, empty or wrongly typed, or no auth pairing is supplied, the    *)
(* call ends in ParamError and has issued no POST.                         *)
(***************************************************************************)
BadArguments ==
    CASE op = "__init__" ->
            \/ ~NonEmptyStr(args["addr"])
            \/ IF args["user"].t # "none" /\ args["passwd"].t # "none"
               THEN ~NonEmptyStr(args["user"]) \/ ~NonEmptyStr(args["passwd"])
               ELSE ~NonEmptyStr(args["key"])
      [] op \in {"shorten", "update", "expand", "url_stats"} -> ~NonEmptyStr(args["url"])
      [] op = "delete" -> ~NonEmptyStr(args["keyword"])
      [] OTHER -> FALSE

C1_ParamErrorBeforeNetwork ==
    BadArguments => (Raised("Pyourls3ParamError") /\ posts = <<>>)

(***************************************************************************)
(* C2.  Every method that receives a body that is not JSON raises          *)
(* HTTPError with the response's status code and the endpoint.             *)
(***************************************************************************)
C2_NonJSONRaisesHTTPError ==
    (Answered /\ op \in Methods /\ ~response.json) => RaisedHTTPError

\* C2 as amended: every method but delete does so; delete, which never
\* parses the body, does so exactly when the status code is not 200.
C2_NonJSONRaisesHTTPErrorButDelete ==
    (Answered /\ op \in Methods /\ ~response.json) =>
        IF op = "delete" /\ response.status_code = 200
        THEN Returned /\ outcome.info["value"] = TRUE
        ELSE RaisedHTTPError

C2_Witness ==
    /\ Answered /\ op = "stats" /\ ~response.json /\ response.status_code = 200
    /\ RaisedHTTPError

(***************************************************************************)
(* C3.  URLAlreadyExistsError is raised only by shorten, exactly when the  *)
(* JSON response has status != "success" and code "error:url", and then    *)
(* carries the url passed to shorten.                                      *)
(***************************************************************************)
DuplicateURL ==
    /\ response.json
    /\ {"status", "code"} \subseteq DOMAIN response.obj
    /\ response.obj["status"] # S_success
    /\ response.obj["code"] = S_error_url

C3_URLAlreadyExistsOnlyFromShorten ==
    /\ Raised("Pyourls3URLAlreadyExistsError") =>
          (op = "shorten" /\ DuplicateURL /\ outcome.info["url"] = args["url"])
    /\ (Answered /\ op = "shorten" /\ DuplicateURL) =>
          Raised("Pyourls3URLAlreadyExistsError")

(***************************************************************************)
(* C4.  Construction with parameters that pass the checks raises APIError  *)
(* with code 403 if and only if the probe's status code is 403; any other  *)
(* status code, whatever the body, lets construction succeed.              *)
(***************************************************************************)
C4_ProbeFailsIffForbidden ==
    (Answered /\ op = "__init__") =>
        IF response.status_code = 403
        THEN /\ Raised("Pyourls3APIError")
             /\ outcome.info["code"] = 403
             /\ ~constructed
        ELSE Returned /\ constructed

C4_Witness ==
    /\ Answered /\ op = "__init__" /\ response.status_code = 403 /\ response.json
    /\ Raised("Pyourls3APIError")

(***************************************************************************)
(* C5.  expand and url_stats: a message other than "success" raises        *)
(* APIError whose detail is the message without its "error: " prefix, the  *)
(* rest kept verbatim even when it contains ": ", and whose code is the    *)
(* response's code; "success" returns the longurl field, respectively the  *)
(* link sub-object.                                                        *)
(***************************************************************************)
HasErrorPrefix(m) == Len(m) >= Len(S_error_prefix) /\ SubSeq(m, 1, Len(S_error_prefix)) = S_error_prefix
StripErrorPrefix(m) == SubSeq(m, Len(S_error_prefix) + 1, Len(m))
PayloadKey == IF op = "expand" THEN "longurl" ELSE "link"

C5_ErrorDetailVerbatim ==
    (Answered /\ op \in {"expand", "url_stats"} /\ response.json
        /\ "message" \in DOMAIN response.obj) =>
        LET j == response.obj
        IN IF j["message"] = S_success
           THEN PayloadKey \in DOMAIN j =>
                    (Returned /\ outcome.info["value"] = j[PayloadKey])
           ELSE (HasErrorPrefix(j["message"]) /\ "code" \in DOMAIN j) =>
                    /\ Raised("Pyourls3APIError")
                    /\ outcome.info["message"] = StripErrorPrefix(j["message"])
                    /\ outcome.info["code"] = j["code"]

(***************************************************************************)
(* C6.  delete with a non-empty keyword returns True exactly when the      *)
(* status code is 200, whatever the body, and raises HTTPError with the    *)
(* status code and the endpoint for every other status code.              *)
(***************************************************************************)
C6_DeleteByStatusCode ==
    (Answered /\ op = "delete") =>
        IF response.status_code = 200
        THEN Returned /\ outcome.info["value"] = TRUE
        ELSE RaisedHTTPError

C6_Witness ==
    /\ Answered /\ op = "delete" /\ response.status_code = 200
    /\ response.json /\ "status" \in DOMAIN response.obj
    /\ response.obj["status"] = S_fail
    /\ NonEmptyStr(args["keyword"])
    /\ Returned

(***************************************************************************)
(* C7.  An empty or non-string user, passwd or key, for the auth mode in   *)
(* use, makes construction fail with ParamError: no constructed client     *)
(* sends an empty username, password or signature.                         *)
(***************************************************************************)
C7_CredentialsNonEmpty ==
    /\ constructed => \A k \in AuthKeys(global_args) : NonEmptyStr(global_args[k])
    /\ \A i \in 1..Len(posts) :
          \A k \in AuthKeys(posts[i].data) : NonEmptyStr(posts[i].data[k])

(***************************************************************************)
(* C8.  The auth fields of a constructed client, and of the body of every  *)
(* request, are exactly {username, password} or exactly {signature},       *)
(* together with format=json; user and passwd, when both are given, win    *)
(* over key; with neither pairing construction raises ParamError.          *)
(***************************************************************************)
ValidAuth(d) ==
    /\ AuthKeys(d) = {"username", "password"} \/ AuthKeys(d) = {"signature"}
    /\ "format" \in DOMAIN d
    /\ d["format"] = PyStr(S_json)

C8_AuthModeInvariant ==
    /\ constructed =>
          /\ ValidAuth(global_args)
          /\ is_using_signature_auth <=> AuthKeys(global_args) = {"signature"}
    /\ \A i \in 1..Len(posts) : ValidAuth(posts[i].data)
    /\ (op = "__init__" /\ constructed
            /\ args["user"].t # "none" /\ args["passwd"].t # "none") =>
          global_args = [username |-> args["user"], password |-> args["passwd"],
                         format |-> PyStr(S_json)]
    /\ (op = "__init__" /\ args["key"].t = "none"
            /\ (args["user"].t = "none" \/ args["passwd"].t = "none")) =>
          (Raised("Pyourls3ParamError") /\ posts = <<>> /\ ~constructed)

C8_Witness ==
    /\ op = "__init__" /\ constructed
    /\ NonEmptyStr(args["user"]) /\ NonEmptyStr(args["passwd"]) /\ NonEmptyStr(args["key"])
    /\ AuthKeys(global_args) = {"username", "password"}

(***************************************************************************)
(* C9.  No step changes a constructed client's endpoint, auth mode or      *)
(* global parameters, and the body of each request holds the global        *)
(* parameters and the fields of its own call only.                         *)
(***************************************************************************)
SpecificKeys == {"action", "url", "shorturl", "keyword", "title"}

OwnKeys ==
    CASE op = "shorten" ->
            {"action", "url"}
                \cup (IF args["keyword"].t # "none" THEN {"keyword"} ELSE {})
                \cup (IF args["title"].t # "none" THEN {"title"} ELSE {})
      [] op = "update" -> {"action", "shorturl", "url"}
      [] op \in {"expand", "delete", "url_stats"} -> {"action", "shorturl"}
      [] op = "stats" -> {"action"}
      [] OTHER -> {}

OwnBodies ==
    /\ DOMAIN global_args \cap SpecificKeys = {}
    /\ \A i \in 1..Len(posts) :
          /\ posts[i].url = api_endpoint
          /\ DOMAIN posts[i].data = DOMAIN global_args \cup OwnKeys
          /\ \A k \in DOMAIN global_args : posts[i].data[k] = global_args[k]

C9_ConfigNeverMutated ==
    [][constructed =>
          /\ constructed'
          /\ api_endpoint' = api_endpoint
          /\ global_args' = global_args
          /\ is_using_signature_auth' = is_using_signature_auth
          /\ OwnBodies']_vars

C9_Witness ==
    /\ Answered /\ op = "shorten" /\ constructed
    /\ args["title"].t # "none" /\ args["keyword"].t # "none"
    /\ Raised("Pyourls3APIError")
    /\ DOMAIN global_args = {"signature", "format"}

(***************************************************************************)
(* C10.  A successful construction issues exactly one probe POST, with the *)
(* global parameters only, before any method request; a method call with   *)
(* valid arguments issues exactly one POST and ends as soon as the         *)
(* response is in, whether it returns or raises.                           *)
(***************************************************************************)
C10_NoRetries ==
    /\ Len(posts) <= 1
    /\ (op = "__init__" /\ constructed) =>
          (Len(posts) = 1 /\ posts[1] = Post(api_endpoint, global_args))
    /\ op \in Methods => constructed
    /\ (op \in Methods /\ ~BadArguments) => Len(posts) = 1
    /\ response.received => (pc = "idle" /\ (Returned \/ outcome.kind = "raise") /\ Len(posts) = 1)

C10_Witness ==
    /\ Answered /\ op = "delete" /\ response.status_code = 500
    /\ Raised("Pyourls3HTTPError")
    /\ Len(posts) = 1

====
